---- MODULE Spec2Model ----
(***************************************************************************)
(* A model of the inspection pipeline of jy3558/QMSS:                      *)
(*   data/cleaning.py        load_csv, standardize, spatially_join_zip     *)
(*   data/src/features.py    build_establishment_history,                  *)
(*                           compute_hygiene_index                         *)
(*   data/src/aggregate.py   aggregate_by_zip                              *)
(*   data/src/modeling.py    fit_panel_fe                                  *)
(*   scripts/run_pipeline.py main                                          *)
(* A table (pandas DataFrame) is a sequence of records, one per row, in    *)
(* row order.  Dates are day numbers >= 1, scores and counts are naturals. *)
(* Establishment ids (camis) are naturals 1..9, whose order is the order of*)
(* the one-digit strings the code sorts; 0 is the empty string.  Texts are *)
(* sequences of characters.                                                *)
(***************************************************************************)
EXTENDS Integers, Sequences, FiniteSets, TLC

VARIABLES
    pc,            \* position of the run
    zip_shapefile, \* the ZIP shapefile the run is given
    raw,           \* the table before zip resolution
    cols,          \* the column names of the table in hand
    df,            \* the table in hand: cleaned, zip-resolved records
    hist,          \* the table build_establishment_history returned
    est,           \* the table compute_hygiene_index returned
    agg,           \* the table aggregate_by_zip returned
    err,           \* the exception that ended the run, "none" if none
    files          \* the output files written so far

vars == <<pc, zip_shapefile, raw, cols, df, hist, est, agg, err, files>>

(***************************************************************************)
(* Missing values.  NULL is NaT / NaN in a date or numeric column, NA is   *)
(* None / NaN in a text column.  A text (Python str) is the sequence of    *)
(* its characters, so that the string methods act on it as they do in the  *)
(* code.                                                                   *)
(***************************************************************************)
NULL == -1
NA == <<"<NA>">>

\* The alphabet of the texts: the characters U+0000 to U+017F and those
\* beyond whose lower or upper case lies in that range.  A character that is
\* not printable ASCII is written as its code point, "<U+00E9>".  LowerMap
\* and UpperMap give str.lower() and str.upper() of each character of the
\* alphabet that they change; the result can be longer than one character.
LowerMap ==
    "A" :> <<"a">> @@ "B" :> <<"b">> @@ "C" :> <<"c">> @@ "D" :> <<"d">> @@
    "E" :> <<"e">> @@ "F" :> <<"f">> @@ "G" :> <<"g">> @@ "H" :> <<"h">> @@
    "I" :> <<"i">> @@ "J" :> <<"j">> @@ "K" :> <<"k">> @@ "L" :> <<"l">> @@
    "M" :> <<"m">> @@ "N" :> <<"n">> @@ "O" :> <<"o">> @@ "P" :> <<"p">> @@
    "Q" :> <<"q">> @@ "R" :> <<"r">> @@ "S" :> <<"s">> @@ "T" :> <<"t">> @@
    "U" :> <<"u">> @@ "V" :> <<"v">> @@ "W" :> <<"w">> @@ "X" :> <<"x">> @@
    "Y" :> <<"y">> @@ "Z" :> <<"z">> @@ "<U+00C0>" :> <<"<U+00E0>">> @@
    "<U+00C1>" :> <<"<U+00E1>">> @@ "<U+00C2>" :> <<"<U+00E2>">> @@
    "<U+00C3>" :> <<"<U+00E3>">> @@ "<U+00C4>" :> <<"<U+00E4>">> @@
    "<U+00C5>" :> <<"<U+00E5>">> @@ "<U+00C6>" :> <<"<U+00E6>">> @@
    "<U+00C7>" :> <<"<U+00E7>">> @@ "<U+00C8>" :> <<"<U+00E8>">> @@
    "<U+00C9>" :> <<"<U+00E9>">> @@ "<U+00CA>" :> <<"<U+00EA>">> @@
    "<U+00CB>" :> <<"<U+00EB>">> @@ "<U+00CC>" :> <<"<U+00EC>">> @@
    "<U+00CD>" :> <<"<U+00ED>">> @@ "<U+00CE>" :> <<"<U+00EE>">> @@
    "<U+00CF>" :> <<"<U+00EF>">> @@ "<U+00D0>" :> <<"<U+00F0>">> @@
    "<U+00D1>" :> <<"<U+00F1>">> @@ "<U+00D2>" :> <<"<U+00F2>">> @@
    "<U+00D3>" :> <<"<U+00F3>">> @@ "<U+00D4>" :> <<"<U+00F4>">> @@
    "<U+00D5>" :> <<"<U+00F5>">> @@ "<U+00D6>" :> <<"<U+00F6>">> @@
    "<U+00D8>" :> <<"<U+00F8>">> @@ "<U+00D9>" :> <<"<U+00F9>">> @@
    "<U+00DA>" :> <<"<U+00FA>">> @@ "<U+00DB>" :> <<"<U+00FB>">> @@
    "<U+00DC>" :> <<"<U+00FC>">> @@ "<U+00DD>" :> <<"<U+00FD>">> @@
    "<U+00DE>" :> <<"<U+00FE>">> @@ "<U+0100>" :> <<"<U+0101>">> @@
    "<U+0102>" :> <<"<U+0103>">> @@ "<U+0104>" :> <<"<U+0105>">> @@
    "<U+0106>" :> <<"<U+0107>">> @@ "<U+0108>" :> <<"<U+0109>">> @@
    "<U+010A>" :> <<"<U+010B>">> @@ "<U+010C>" :> <<"<U+010D>">> @@
    "<U+010E>" :> <<"<U+010F>">> @@ "<U+0110>" :> <<"<U+0111>">> @@
    "<U+0112>" :> <<"<U+0113>">> @@ "<U+0114>" :> <<"<U+0115>">> @@
    "<U+0116>" :> <<"<U+0117>">> @@ "<U+0118>" :> <<"<U+0119>">> @@
    "<U+011A>" :> <<"<U+011B>">> @@ "<U+011C>" :> <<"<U+011D>">> @@
    "<U+011E>" :> <<"<U+011F>">> @@ "<U+0120>" :> <<"<U+0121>">> @@
    "<U+0122>" :> <<"<U+0123>">> @@ "<U+0124>" :> <<"<U+0125>">> @@
    "<U+0126>" :> <<"<U+0127>">> @@ "<U+0128>" :> <<"<U+0129>">> @@
    "<U+012A>" :> <<"<U+012B>">> @@ "<U+012C>" :> <<"<U+012D>">> @@
    "<U+012E>" :> <<"<U+012F>">> @@ "<U+0130>" :> <<"i", "<U+0307>">> @@
    "<U+0132>" :> <<"<U+0133>">> @@ "<U+0134>" :> <<"<U+0135>">> @@
    "<U+0136>" :> <<"<U+0137>">> @@ "<U+0139>" :> <<"<U+013A>">> @@
    "<U+013B>" :> <<"<U+013C>">> @@ "<U+013D>" :> <<"<U+013E>">> @@
    "<U+013F>" :> <<"<U+0140>">> @@ "<U+0141>" :> <<"<U+0142>">> @@
    "<U+0143>" :> <<"<U+0144>">> @@ "<U+0145>" :> <<"<U+0146>">> @@
    "<U+0147>" :> <<"<U+0148>">> @@ "<U+014A>" :> <<"<U+014B>">> @@
    "<U+014C>" :> <<"<U+014D>">> @@ "<U+014E>" :> <<"<U+014F>">> @@
    "<U+0150>" :> <<"<U+0151>">> @@ "<U+0152>" :> <<"<U+0153>">> @@
    "<U+0154>" :> <<"<U+0155>">> @@ "<U+0156>" :> <<"<U+0157>">> @@
    "<U+0158>" :> <<"<U+0159>">> @@ "<U+015A>" :> <<"<U+015B>">> @@
    "<U+015C>" :> <<"<U+015D>">> @@ "<U+015E>" :> <<"<U+015F>">> @@
    "<U+0160>" :> <<"<U+0161>">> @@ "<U+0162>" :> <<"<U+0163>">> @@
    "<U+0164>" :> <<"<U+0165>">> @@ "<U+0166>" :> <<"<U+0167>">> @@
    "<U+0168>" :> <<"<U+0169>">> @@ "<U+016A>" :> <<"<U+016B>">> @@
    "<U+016C>" :> <<"<U+016D>">> @@ "<U+016E>" :> <<"<U+016F>">> @@
    "<U+0170>" :> <<"<U+0171>">> @@ "<U+0172>" :> <<"<U+0173>">> @@
    "<U+0174>" :> <<"<U+0175>">> @@ "<U+0176>" :> <<"<U+0177>">> @@
    "<U+0178>" :> <<"<U+00FF>">> @@ "<U+0179>" :> <<"<U+017A>">> @@
    "<U+017B>" :> <<"<U+017C>">> @@ "<U+017D>" :> <<"<U+017E>">> @@
    "<U+1E9E>" :> <<"<U+00DF>">> @@ "<U+212A>" :> <<"k">> @@
    "<U+212B>" :> <<"<U+00E5>">>

UpperMap ==
    "a" :> <<"A">> @@ "b" :> <<"B">> @@ "c" :> <<"C">> @@ "d" :> <<"D">> @@
    "e" :> <<"E">> @@ "f" :> <<"F">> @@ "g" :> <<"G">> @@ "h" :> <<"H">> @@
    "i" :> <<"I">> @@ "j" :> <<"J">> @@ "k" :> <<"K">> @@ "l" :> <<"L">> @@
    "m" :> <<"M">> @@ "n" :> <<"N">> @@ "o" :> <<"O">> @@ "p" :> <<"P">> @@
    "q" :> <<"Q">> @@ "r" :> <<"R">> @@ "s" :> <<"S">> @@ "t" :> <<"T">> @@
    "u" :> <<"U">> @@ "v" :> <<"V">> @@ "w" :> <<"W">> @@ "x" :> <<"X">> @@
    "y" :> <<"Y">> @@ "z" :> <<"Z">> @@ "<U+00B5>" :> <<"<U+039C>">> @@
    "<U+00DF>" :> <<"S", "S">> @@ "<U+00E0>" :> <<"<U+00C0>">> @@
    "<U+00E1>" :> <<"<U+00C1>">> @@ "<U+00E2>" :> <<"<U+00C2>">> @@
    "<U+00E3>" :> <<"<U+00C3>">> @@ "<U+00E4>" :> <<"<U+00C4>">> @@
    "<U+00E5>" :> <<"<U+00C5>">> @@ "<U+00E6>" :> <<"<U+00C6>">> @@
    "<U+00E7>" :> <<"<U+00C7>">> @@ "<U+00E8>" :> <<"<U+00C8>">> @@
    "<U+00E9>" :> <<"<U+00C9>">> @@ "<U+00EA>" :> <<"<U+00CA>">> @@
    "<U+00EB>" :> <<"<U+00CB>">> @@ "<U+00EC>" :> <<"<U+00CC>">> @@
    "<U+00ED>" :> <<"<U+00CD>">> @@ "<U+00EE>" :> <<"<U+00CE>">> @@
    "<U+00EF>" :> <<"<U+00CF>">> @@ "<U+00F0>" :> <<"<U+00D0>">> @@
    "<U+00F1>" :> <<"<U+00D1>">> @@ "<U+00F2>" :> <<"<U+00D2>">> @@
    "<U+00F3>" :> <<"<U+00D3>">> @@ "<U+00F4>" :> <<"<U+00D4>">> @@
    "<U+00F5>" :> <<"<U+00D5>">> @@ "<U+00F6>" :> <<"<U+00D6>">> @@
    "<U+00F8>" :> <<"<U+00D8>">> @@ "<U+00F9>" :> <<"<U+00D9>">> @@
    "<U+00FA>" :> <<"<U+00DA>">> @@ "<U+00FB>" :> <<"<U+00DB>">> @@
    "<U+00FC>" :> <<"<U+00DC>">> @@ "<U+00FD>" :> <<"<U+00DD>">> @@
    "<U+00FE>" :> <<"<U+00DE>">> @@ "<U+00FF>" :> <<"<U+0178>">> @@
    "<U+0101>" :> <<"<U+0100>">> @@ "<U+0103>" :> <<"<U+0102>">> @@
    "<U+0105>" :> <<"<U+0104>">> @@ "<U+0107>" :> <<"<U+0106>">> @@
    "<U+0109>" :> <<"<U+0108>">> @@ "<U+010B>" :> <<"<U+010A>">> @@
    "<U+010D>" :> <<"<U+010C>">> @@ "<U+010F>" :> <<"<U+010E>">> @@
    "<U+0111>" :> <<"<U+0110>">> @@ "<U+0113>" :> <<"<U+0112>">> @@
    "<U+0115>" :> <<"<U+0114>">> @@ "<U+0117>" :> <<"<U+0116>">> @@
    "<U+0119>" :> <<"<U+0118>">> @@ "<U+011B>" :> <<"<U+011A>">> @@
    "<U+011D>" :> <<"<U+011C>">> @@ "<U+011F>" :> <<"<U+011E>">> @@
    "<U+0121>" :> <<"<U+0120>">> @@ "<U+0123>" :> <<"<U+0122>">> @@
    "<U+0125>" :> <<"<U+0124>">> @@ "<U+0127>" :> <<"<U+0126>">> @@
    "<U+0129>" :> <<"<U+0128>">> @@ "<U+012B>" :> <<"<U+012A>">> @@
    "<U+012D>" :> <<"<U+012C>">> @@ "<U+012F>" :> <<"<U+012E>">> @@
    "<U+0131>" :> <<"I">> @@ "<U+0133>" :> <<"<U+0132>">> @@
    "<U+0135>" :> <<"<U+0134>">> @@ "<U+0137>" :> <<"<U+0136>">> @@
    "<U+013A>" :> <<"<U+0139>">> @@ "<U+013C>" :> <<"<U+013B>">> @@
    "<U+013E>" :> <<"<U+013D>">> @@ "<U+0140>" :> <<"<U+013F>">> @@
    "<U+0142>" :> <<"<U+0141>">> @@ "<U+0144>" :> <<"<U+0143>">> @@
    "<U+0146>" :> <<"<U+0145>">> @@ "<U+0148>" :> <<"<U+0147>">> @@
    "<U+0149>" :> <<"<U+02BC>", "N">> @@ "<U+014B>" :> <<"<U+014A>">> @@
    "<U+014D>" :> <<"<U+014C>">> @@ "<U+014F>" :> <<"<U+014E>">> @@
    "<U+0151>" :> <<"<U+0150>">> @@ "<U+0153>" :> <<"<U+0152>">> @@
    "<U+0155>" :> <<"<U+0154>">> @@ "<U+0157>" :> <<"<U+0156>">> @@
    "<U+0159>" :> <<"<U+0158>">> @@ "<U+015B>" :> <<"<U+015A>">> @@
    "<U+015D>" :> <<"<U+015C>">> @@ "<U+015F>" :> <<"<U+015E>">> @@
    "<U+0161>" :> <<"<U+0160>">> @@ "<U+0163>" :> <<"<U+0162>">> @@
    "<U+0165>" :> <<"<U+0164>">> @@ "<U+0167>" :> <<"<U+0166>">> @@
    "<U+0169>" :> <<"<U+0168>">> @@ "<U+016B>" :> <<"<U+016A>">> @@
    "<U+016D>" :> <<"<U+016C>">> @@ "<U+016F>" :> <<"<U+016E>">> @@
    "<U+0171>" :> <<"<U+0170>">> @@ "<U+0173>" :> <<"<U+0172>">> @@
    "<U+0175>" :> <<"<U+0174>">> @@ "<U+0177>" :> <<"<U+0176>">> @@
    "<U+017A>" :> <<"<U+0179>">> @@ "<U+017C>" :> <<"<U+017B>">> @@
    "<U+017E>" :> <<"<U+017D>">> @@ "<U+017F>" :> <<"S">> @@
    "<U+FB00>" :> <<"F", "F">> @@ "<U+FB01>" :> <<"F", "I">> @@
    "<U+FB02>" :> <<"F", "L">> @@ "<U+FB03>" :> <<"F", "F", "I">> @@
    "<U+FB04>" :> <<"F", "F", "L">> @@ "<U+FB05>" :> <<"S", "T">> @@
    "<U+FB06>" :> <<"S", "T">>

lower_char(c) == IF c \in DOMAIN LowerMap THEN LowerMap[c] ELSE <<c>>
upper_char(c) == IF c \in DOMAIN UpperMap THEN UpperMap[c] ELSE <<c>>

\* str.lower(), str.upper()
RECURSIVE str_lower(_)
str_lower(x) ==
    IF x = <<>> THEN <<>> ELSE lower_char(Head(x)) \o str_lower(Tail(x))
RECURSIVE str_upper(_)
str_upper(x) ==
    IF x = <<>> THEN <<>> ELSE upper_char(Head(x)) \o str_upper(Tail(x))

\* str.strip(): white space off both ends.  Whitespace holds the characters
\* str.isspace() is true of; one that has no escape in a string here is
\* written as its code point, "<U+000B>".
Whitespace ==
    {" ", "\t", "\n", "\r", "\f", "<U+000B>", "<U+001C>", "<U+001D>",
     "<U+001E>", "<U+001F>", "<U+0085>", "<U+00A0>", "<U+1680>", "<U+2000>",
     "<U+2001>", "<U+2002>", "<U+2003>", "<U+2004>", "<U+2005>", "<U+2006>",
     "<U+2007>", "<U+2008>", "<U+2009>", "<U+200A>", "<U+2028>", "<U+2029>",
     "<U+202F>", "<U+205F>", "<U+3000>"}
RECURSIVE str_lstrip(_)
str_lstrip(x) ==
    IF x # <<>> /\ Head(x) \in Whitespace THEN str_lstrip(Tail(x)) ELSE x
RECURSIVE str_rstrip(_)
str_rstrip(x) ==
    IF x # <<>> /\ x[Len(x)] \in Whitespace
    THEN str_rstrip(SubSeq(x, 1, Len(x) - 1)) ELSE x
str_strip(x) == str_rstrip(str_lstrip(x))

\* k in s
str_contains(s, k) ==
    \E i \in 0..(Len(s) - Len(k)) : SubSeq(s, i + 1, i + Len(k)) = k

\* The texts of the cells of the model.
GradeA == <<"A">>
GradeLowerA == <<" ", "a">>
GradeNa == <<"n", "/", "a">>
Closed == <<"C", "l", "o", "s", "e", "d">>
Code04L == <<"0", "4", "L">>
Rodent == <<"r", "o", "d", "e", "n", "t">>
RodentEvidence ==
    <<"E", "v", "i", "d", "e", "n", "c", "e", " ", "o", "f", " ", "r", "o", "d", "e", "n", "t", " ", "a", "c", "t", "i", "v", "i", "t", "y">>

\* Bounds of the model.
MaxRows == 3
NumCamis == 2

Camis == 1..NumCamis
Dates == {1, 3, 34}
Scores == {1, 2}

(***************************************************************************)
(* build_establishment_history                                             *)
(***************************************************************************)

\* The order of sort_values([camis_col, date_col]): by camis, then by date,
\* missing dates last (na_position="last").
DateLess(d1, d2) == d1 # NULL /\ (d2 = NULL \/ d1 < d2)

RowLess(a, b) ==
    \/ a.camis < b.camis
    \/ a.camis = b.camis /\ DateLess(a.inspection_date, b.inspection_date)

\* One step of the stable sort: r goes before the first row that is greater.
RECURSIVE InsertRow(_, _)
InsertRow(s, r) ==
    IF s = <<>> THEN <<r>>
    ELSE IF RowLess(r, Head(s)) THEN <<r>> \o s
    ELSE <<Head(s)>> \o InsertRow(Tail(s), r)

\* sort_values on several columns is a stable lexicographic sort.
RECURSIVE sort_values(_)
sort_values(t) ==
    IF t = <<>> THEN <<>>
    ELSE InsertRow(sort_values(SubSeq(t, 1, Len(t) - 1)), t[Len(t)])

SameKey(a, b) == a.camis = b.camis /\ a.inspection_date = b.inspection_date

\* groupby([camis_col, date_col]) with the default dropna=True: the rows whose
\* key holds a missing value belong to no group.
GroupedRows(t) == SelectSeq(t, LAMBDA r : r.inspection_date # NULL)

\* The first row of each group, in the sorted order of the group keys.
RECURSIVE GroupHeads(_)
GroupHeads(t) ==
    IF t = <<>> THEN <<>>
    ELSE LET rest == GroupHeads(SubSeq(t, 1, Len(t) - 1))
             r == t[Len(t)]
         IN IF rest # <<>> /\ SameKey(rest[Len(rest)], r) THEN rest
            ELSE Append(rest, r)

\* The rows of the group of key row k, in table order.
GroupOf(t, k) == SelectSeq(t, LAMBDA r : SameKey(r, k))

\* A count of the rows of the group, whatever their violation_code holds.
CountGroupSize(g) == Len(g)

\* SeriesGroupBy.count: the number of non-missing values of violation_code.
CountViolationCode(g) ==
    Len(SelectSeq(g, LAMBDA r : r.violation_code # NA))

\* lambda s: s.notna().sum() on violation_description.
CountDescription(g) ==
    Len(SelectSeq(g, LAMBDA r : r.violation_description # NA))

violation_count(g) ==
    IF "violation_code" \in cols THEN CountViolationCode(g)
    ELSE CountDescription(g)

\* ("is_critical_description", "sum") over booleans.
critical_violations(g) ==
    Len(SelectSeq(g, LAMBDA r : r.is_critical_description))

\* The value of the first row of the group, missing or not.
first_row(g, col, missing) ==
    IF g = <<>> THEN missing ELSE Head(g)[col]

\* GroupBy "first": the first non-missing value of the column in the group,
\* missing when the group holds none.
RECURSIVE first(_, _, _)
first(g, col, missing) ==
    IF g = <<>> THEN missing
    ELSE IF Head(g)[col] # missing THEN Head(g)[col]
    ELSE first(Tail(g), col, missing)

\* The aggregation of one group (features.py, the two agg calls).
AggRow(g) ==
    [camis |-> g[1].camis,
     inspection_date |-> g[1].inspection_date,
     violation_count |-> violation_count(g),
     critical_violations |-> critical_violations(g),
     score |-> first(g, "score", NULL),
     grade |-> first(g, "grade", NA),
     action |-> first(g, "action", NA)]

\* The ordinal of the last raw row of the visit among the raw rows of its
\* establishment: a numbering of rows, not of visits.
inspection_number_of_rows(a, i) ==
    Cardinality({k \in DOMAIN df :
                    /\ df[k].camis = a[i].camis
                    /\ ~DateLess(a[i].inspection_date, df[k].inspection_date)})

\* groupby(camis_col).cumcount() + 1 for row i of the aggregated table.
inspection_number(a, i) ==
    Cardinality({j \in 1..i : a[j].camis = a[i].camis})

\* A shift of the whole date column, across establishments.
prev_inspection_date_ungrouped(a, i) ==
    IF i = 1 THEN NULL ELSE a[i - 1].inspection_date

\* groupby(camis_col)[date_col].shift(1) for row i of the aggregated table.
prev_inspection_date(a, i) ==
    LET before == {j \in 1..(i - 1) : a[j].camis = a[i].camis}
    IN IF before = {} THEN NULL
       ELSE a[CHOOSE j \in before : \A k \in before : k <= j].inspection_date

\* (to_datetime(date) - to_datetime(prev)).dt.days
days_since_prev(d, p) == IF d = NULL \/ p = NULL THEN NULL ELSE d - p

Extend(r, more) ==
    [f \in (DOMAIN r) \cup (DOMAIN more) |->
        IF f \in DOMAIN more THEN more[f] ELSE r[f]]

build_establishment_history(t) ==
    LET df_sub == sort_values(t)
        grouped == GroupedRows(df_sub)
        heads == GroupHeads(grouped)
        agg0 == [i \in 1..Len(heads) |-> AggRow(GroupOf(grouped, heads[i]))]
        agg1 == sort_values(agg0)
    IN [i \in 1..Len(agg1) |->
           Extend(agg1[i],
                  [inspection_number |-> inspection_number(agg1, i),
                   prev_inspection_date |-> prev_inspection_date(agg1, i),
                   days_since_prev |->
                       days_since_prev(agg1[i].inspection_date,
                                       prev_inspection_date(agg1, i))])]

(***************************************************************************)
(* compute_hygiene_index                                                   *)
(*                                                                         *)
(* The index is a quotient of sums and products of the inputs and of       *)
(* eps = 1e-9.  A number is kept exactly, as a polynomial in eps with      *)
(* integer coefficients: p[k] is the coefficient of eps^k.  The            *)
(* coefficients met here are far below 1/eps, so the sign of a polynomial  *)
(* is the sign of its lowest non-zero coefficient.  A quotient is a record *)
(* [nan, num, den] with den > 0; nan = TRUE is NaN.                        *)
(***************************************************************************)
Degrees == 0..4

\* The number n + m * eps.
Poly(n, m) == [k \in Degrees |-> IF k = 0 THEN n ELSE IF k = 1 THEN m ELSE 0]

PAdd(p, q) == [k \in Degrees |-> p[k] + q[k]]
PSub(p, q) == [k \in Degrees |-> p[k] - q[k]]
PScale(c, p) == [k \in Degrees |-> c * p[k]]

RECURSIVE Convolve(_, _, _, _)
Convolve(p, q, k, i) ==
    IF i > k THEN 0 ELSE p[i] * q[k - i] + Convolve(p, q, k, i + 1)

PMul(p, q) == [k \in Degrees |-> Convolve(p, q, k, 0)]

RECURSIVE SignFrom(_, _)
SignFrom(p, k) ==
    IF k \notin Degrees THEN 0
    ELSE IF p[k] > 0 THEN 1
    ELSE IF p[k] < 0 THEN -1
    ELSE SignFrom(p, k + 1)

PSign(p) == SignFrom(p, 0)
PLess(p, q) == PSign(PSub(q, p)) > 0

NaN == [nan |-> TRUE]
Quot(n, d) == [nan |-> FALSE, num |-> n, den |-> d]

\* The default weights, in tenths.
weight_score == 4
weight_critical == 5
weight_violation_count == 1
WeightUnit == 10

\* The factor 100 of the index.
IndexScale == 100

RECURSIVE InsertInt(_, _)
InsertInt(s, x) ==
    IF s = <<>> THEN <<x>>
    ELSE IF x < Head(s) THEN <<x>> \o s
    ELSE <<Head(s)>> \o InsertInt(Tail(s), x)

RECURSIVE SortInts(_)
SortInts(s) ==
    IF s = <<>> THEN <<>> ELSE InsertInt(SortInts(Tail(s)), Head(s))

\* Twice df["score"].median(): the median skips missing scores and is NaN
\* (NULL) when there is none.
Median2(t) ==
    LET present == SelectSeq([i \in 1..Len(t) |-> t[i].score],
                             LAMBDA x : x # NULL)
        s == SortInts(present)
        n == Len(s)
    IN IF n = 0 THEN NULL
       ELSE IF n % 2 = 1 THEN 2 * s[(n + 1) \div 2]
       ELSE s[n \div 2] + s[n \div 2 + 1]

\* Twice score_filled: fillna(median) leaves NaN when the median is NaN.
score_filled2(t, i) ==
    IF t[i].score # NULL THEN 2 * t[i].score ELSE Median2(t)

fillna0(x) == IF x = NULL THEN 0 ELSE x

MinOf(S) == CHOOSE x \in S : \A y \in S : x <= y
MaxOf(S) == CHOOSE x \in S : \A y \in S : y <= x

\* Series.min / Series.max of a column of exact numbers.
PMinOf(S) == CHOOSE x \in S : \A y \in S : ~PLess(y, x)
PMaxOf(S) == CHOOSE x \in S : \A y \in S : ~PLess(x, y)

\* The rows of compute_hygiene_index(t) for a cohort with a score.
\* With N[i] the numerator of hygiene_index_raw over the common denominator
\* D = 10 * ds * dc * dv, where ds, dc, dv are the three eps-guarded ranges,
\* hygiene_index is 100 * (N[i] - min N) / (max N - min N + eps * D).
HygieneRows(t) ==
    LET I == 1..Len(t)
        s2 == [i \in I |-> score_filled2(t, i)]
        cv == [i \in I |-> fillna0(t[i].critical_violations)]
        vc == [i \in I |-> fillna0(t[i].violation_count)]
        smin == MinOf({s2[i] : i \in I})
        cmin == MinOf({cv[i] : i \in I})
        vmin == MinOf({vc[i] : i \in I})
        \* (s - s.min()) / (s.max() - s.min() + eps), both doubled
        ds == Poly(MaxOf({s2[i] : i \in I}) - smin, 2)
        dc == Poly(MaxOf({cv[i] : i \in I}) - cmin, 1)
        dv == Poly(MaxOf({vc[i] : i \in I}) - vmin, 1)
        N == [i \in I |->
                 PAdd(PScale(weight_score * (s2[i] - smin), PMul(dc, dv)),
                      PAdd(PScale(weight_critical * (cv[i] - cmin), PMul(ds, dv)),
                           PScale(weight_violation_count * (vc[i] - vmin),
                                  PMul(ds, dc))))]
        D == PScale(WeightUnit, PMul(ds, PMul(dc, dv)))
        Nmin == PMinOf({N[i] : i \in I})
        Nmax == PMaxOf({N[i] : i \in I})
        span == PAdd(PSub(Nmax, Nmin), PMul(Poly(0, 1), D))
    IN [i \in I |->
           Extend(t[i],
                  [score_filled2 |-> s2[i],
                   hygiene_index_raw |-> Quot(N[i], D),
                   hygiene_index |->
                       Quot(PScale(IndexScale, PSub(N[i], Nmin)), span)])]

\* With every score missing the median is NaN, score_filled stays NaN, and
\* NaN runs through s_scaled, hygiene_index_raw and hygiene_index.
compute_hygiene_index(t) ==
    IF t = <<>> THEN <<>>
    ELSE IF Median2(t) = NULL
    THEN [i \in 1..Len(t) |->
             Extend(t[i], [score_filled2 |-> NULL,
                           hygiene_index_raw |-> NaN,
                           hygiene_index |-> NaN])]
    ELSE HygieneRows(t)

(***************************************************************************)
(* load_csv                                                                *)
(***************************************************************************)
\* The cell texts pd.read_csv takes for a missing value.
na_values ==
    {<<>>, <<"#", "N", "/", "A">>, <<"#", "N", "/", "A", " ", "N", "/", "A">>,
     <<"#", "N", "A">>, <<"-", "1", ".", "#", "I", "N", "D">>,
     <<"-", "1", ".", "#", "Q", "N", "A", "N">>, <<"-", "N", "a", "N">>,
     <<"-", "n", "a", "n">>, <<"1", ".", "#", "I", "N", "D">>,
     <<"1", ".", "#", "Q", "N", "A", "N">>, <<"<", "N", "A", ">">>,
     <<"N", "/", "A">>, <<"N", "A">>, <<"N", "U", "L", "L">>,
     <<"N", "a", "N">>, <<"N", "o", "n", "e">>, <<"n", "/", "a">>,
     <<"n", "a", "n">>, <<"n", "u", "l", "l">>}

read_csv_cell(x) == IF x = NA \/ x \in na_values THEN NA ELSE x

\* pd.read_csv(path, dtype=str): the text cells of a row.  The date and
\* score cells are held as the numbers they will parse to.
read_csv_row(r) ==
    [r EXCEPT !.grade = read_csv_cell(@), !.action = read_csv_cell(@),
              !.violation_code = read_csv_cell(@),
              !.violation_description = read_csv_cell(@),
              !.zipcode = read_csv_cell(@),
              !.postal_code = read_csv_cell(@)]

load_csv(t) == [i \in 1..Len(t) |-> read_csv_row(t[i])]

(***************************************************************************)
(* standardize                                                             *)
(***************************************************************************)
\* A date or score cell whose text does not parse.
Unparseable == 0

\* pd.to_datetime / pd.to_numeric with errors="coerce": a missing cell and
\* a text that does not parse become NaT / NaN.
coerce(x) == IF x = Unparseable \/ x = NULL THEN NULL ELSE x

\* .str.upper().str.strip().replace({"N/A": "NOT APPLICABLE"}): replace
\* acts on a whole cell; a missing cell stays missing.
TextNA == <<"N", "/", "A">>
NotApplicable ==
    <<"N", "O", "T", " ", "A", "P", "P", "L", "I", "C", "A", "B", "L", "E">>
standard_grade(x) ==
    IF x = NA THEN NA
    ELSE IF str_strip(str_upper(x)) = TextNA THEN NotApplicable
    ELSE str_strip(str_upper(x))

CRITICAL_KEYWORDS ==
    {<<"r", "o", "d", "e", "n", "t">>, <<"r", "o", "a", "c", "h", "e", "s">>,
     <<"s", "e", "w", "a", "g", "e">>,
     <<"n", "o", " ", "h", "o", "t", " ", "w", "a", "t", "e", "r">>,
     <<"n", "o", " ", "h", "o", "t">>,
     <<"i", "m", "p", "r", "o", "p", "e", "r", " ", "h", "o", "l", "d", "i", "n", "g">>,
     <<"c", "r", "i", "t", "i", "c", "a", "l">>, <<"m", "a", "j", "o", "r">>,
     <<"r", "i", "s", "k">>, <<"i", "m", "m", "i", "n", "e", "n", "t">>,
     <<"c", "l", "o", "s", "u", "r", "e">>}

\* .astype(str) on the description: a missing cell becomes the text "nan".
description_str(x) == IF x = NA THEN <<"n", "a", "n">> ELSE x

\* .str.lower().apply(lambda s: any(k in s for k in CRITICAL_KEYWORDS))
is_critical(desc) ==
    \E k \in CRITICAL_KEYWORDS : str_contains(str_lower(desc), k)

\* The camis of every row of a table that has no camis column: the empty
\* text, which sorts before every other.
EmptyCamis == 0

standardize(t, tcols) ==
    [i \in 1..Len(t) |->
        Extend(t[i],
               [inspection_date |->
                    IF "inspection_date" \in tcols
                    THEN coerce(t[i].inspection_date) ELSE t[i].inspection_date,
                score |->
                    IF "score" \in tcols THEN coerce(t[i].score) ELSE t[i].score,
                grade |->
                    IF "grade" \in tcols THEN standard_grade(t[i].grade)
                    ELSE t[i].grade,
                violation_description |->
                    IF "violation_description" \in tcols
                    THEN description_str(t[i].violation_description)
                    ELSE <<>>,
                is_critical_description |->
                    IF "violation_description" \in tcols
                    THEN is_critical(description_str(t[i].violation_description))
                    ELSE is_critical(<<>>),
                camis |->
                    IF "camis" \in tcols THEN t[i].camis ELSE EmptyCamis])]

standardize_cols(tcols) ==
    tcols \cup {"violation_description", "is_critical_description", "camis"}
          \cup {"RAW_" \o c : c \in tcols \cap {"violation_description", "grade",
                                                "score", "inspection_date"}}

(***************************************************************************)
(* spatially_join_zip                                                      *)
(*                                                                         *)
(* The text of a zip column is a sequence of characters, so that slicing   *)
(* and padding act on it as they do on a Python str.  ZNA is a missing     *)
(* cell (NaN).                                                             *)
(***************************************************************************)
ZNA == NA
Z10001 == <<"1", "0", "0", "0", "1">>
Z10002 == <<"1", "0", "0", "0", "2">>
Z7302 == <<"7", "3", "0", "2">>
ZPlus4 == <<"1", "0", "0", "0", "2", "-", "1", "2", "3", "4">>

\* .astype(str) on an object column: a missing cell becomes the text "nan".
astype_str(x) == IF x = ZNA THEN <<"n", "a", "n">> ELSE x

\* .str.slice(0,5)
str_slice(x) == SubSeq(x, 1, IF Len(x) < 5 THEN Len(x) ELSE 5)

\* .str.zfill(5)
Zeros(n) == [i \in 1..n |-> "0"]

\* .str.zfill(5): the zeros go after a leading sign.
str_zfill(x) ==
    IF Len(x) >= 5 THEN x
    ELSE IF x # <<>> /\ Head(x) \in {"+", "-"}
    THEN <<Head(x)>> \o Zeros(5 - Len(x)) \o Tail(x)
    ELSE Zeros(5 - Len(x)) \o x

ZipText(x) == str_zfill(str_slice(astype_str(x)))

\* The existing zip fields: the zipcode column if the table has one, else
\* the postal_code column if it has one.
ExistingZip(t, tcols) ==
    IF "zipcode" \in tcols
    THEN [i \in 1..Len(t) |-> [t[i] EXCEPT !.zipcode = ZipText(t[i].zipcode)]]
    ELSE IF "postal_code" \in tcols
    THEN [i \in 1..Len(t) |-> [t[i] EXCEPT !.zipcode = ZipText(t[i].postal_code)]]
    ELSE t

ExistingZipCols(tcols) ==
    IF "zipcode" \in tcols \/ "postal_code" \in tcols
    THEN tcols \cup {"zipcode"} ELSE tcols

\* gpd.sjoin(gdf, zips, how="left", predicate="within"): the ZIPCODE of the
\* polygon that holds the point of the row, missing when the row has no
\* coordinates or no polygon holds them.  The shapefile has one polygon and
\* names its zip column ZIPCODE, as the docstring expects.
PolygonZip(r) == IF r.coords = "in" THEN Z10002 ELSE ZNA

\* The joined frame keeps the ZIPCODE column of the shapefile beside the
\* zipcode made from it.
SpatialZip(t) ==
    [i \in 1..Len(t) |->
        Extend(t[i], [ZIPCODE |-> PolygonZip(t[i]),
                      zipcode |-> ZipText(PolygonZip(t[i]))])]

Returned(t, tcols) == [raised |-> "none", table |-> t, cols |-> tcols]
Raised(e) == [raised |-> e, table |-> <<>>, cols |-> {}]

\* shp is "none" (no path given, or no file there), "unreadable"
\* (gpd.read_file raises), "nogeom" (read without geometry) or "ok".
spatially_join_zip(t, tcols, shp) ==
    LET t1 == ExistingZip(t, tcols)
        c1 == ExistingZipCols(tcols)
    IN IF shp = "none" THEN Returned(t1, c1)
       ELSE IF shp = "unreadable" THEN Raised("read_file")
       ELSE IF shp = "nogeom" THEN Raised("RuntimeError")
       ELSE IF "latitude" \in tcols /\ "longitude" \in tcols
       THEN Returned(SpatialZip(t1), c1 \cup {"ZIPCODE", "zipcode"})
       ELSE Returned(t1, c1)

(***************************************************************************)
(* aggregate_by_zip                                                        *)
(***************************************************************************)
\* The characters of the zip texts, in code point order.
CodePoints ==
    <<"-", "0", "1", "2", "3", "4", "5", "6", "7", "8", "9", "a", "n">>

Ord(c) == CHOOSE k \in 1..Len(CodePoints) : CodePoints[k] = c

\* The order of Python strings.
RECURSIVE TextLess(_, _)
TextLess(x, y) ==
    IF y = <<>> THEN FALSE
    ELSE IF x = <<>> THEN TRUE
    ELSE IF Head(x) # Head(y) THEN Ord(Head(x)) < Ord(Head(y))
    ELSE TextLess(Tail(x), Tail(y))

\* The first days of the months of a year of 365 days.
MonthStarts == {1, 32, 60, 91, 121, 152, 182, 213, 244, 274, 305, 335}

\* .dt.to_period("M").dt.to_timestamp(): the first day of the month.
period(d) == CHOOSE m \in MonthStarts :
                 m <= d /\ \A n \in MonthStarts : n <= d => n <= m

\* dropna(subset=[date_col, zip_col])
dropna(t) ==
    SelectSeq(t, LAMBDA r : r.inspection_date # NULL /\ r.zipcode # ZNA)

KeyOf(r) == <<r.zipcode, period(r.inspection_date)>>

KeyLess(k, l) == TextLess(k[1], l[1]) \/ (k[1] = l[1] /\ k[2] < l[2])

\* The group keys in sorted order (groupby sorts its keys).
RECURSIVE SortedKeys(_)
SortedKeys(K) ==
    IF K = {} THEN <<>>
    ELSE LET k == CHOOSE x \in K : \A y \in K : ~KeyLess(y, x)
         IN <<k>> \o SortedKeys(K \ {k})

RECURSIVE SumOf(_, _)
SumOf(g, col) ==
    IF g = <<>> THEN 0 ELSE Head(g)[col] + SumOf(Tail(g), col)

\* The mean of a numeric column, missing values skipped.
MeanOf(g, col) ==
    LET present == SelectSeq(g, LAMBDA r : r[col] # NULL)
    IN IF present = <<>> THEN NaN
       ELSE Quot(Poly(SumOf(present, col), 0), Poly(Len(present), 0))

RECURSIVE PSumNum(_)
PSumNum(g) ==
    IF g = <<>> THEN Poly(0, 0)
    ELSE PAdd(Head(g).hygiene_index.num, PSumNum(Tail(g)))

\* The rows of the group that hold a hygiene_index.  The indices of one
\* table share their denominator.
Indexed(g) == SelectSeq(g, LAMBDA r : ~r.hygiene_index.nan)

mean_hygiene_index(g) ==
    LET present == Indexed(g)
    IN IF present = <<>> THEN NaN
       ELSE Quot(PSumNum(present),
                 PScale(Len(present), present[1].hygiene_index.den))

RECURSIVE InsertPoly(_, _)
InsertPoly(s, x) ==
    IF s = <<>> THEN <<x>>
    ELSE IF PLess(x, Head(s)) THEN <<x>> \o s
    ELSE <<Head(s)>> \o InsertPoly(Tail(s), x)

RECURSIVE SortNums(_)
SortNums(g) ==
    IF g = <<>> THEN <<>>
    ELSE InsertPoly(SortNums(Tail(g)), Head(g).hygiene_index.num)

median_hygiene_index(g) ==
    LET present == Indexed(g)
        s == SortNums(present)
        n == Len(s)
    IN IF n = 0 THEN NaN
       ELSE IF n % 2 = 1
       THEN Quot(s[(n + 1) \div 2], present[1].hygiene_index.den)
       ELSE Quot(PAdd(s[n \div 2], s[n \div 2 + 1]),
                 PScale(2, present[1].hygiene_index.den))

\* re.IGNORECASE: the lower case of one character as the regex engine takes
\* it, always one character.
unicode_tolower(c) ==
    IF c = "<U+0130>" THEN "i"
    ELSE IF Len(lower_char(c)) = 1 THEN lower_char(c)[1] ELSE c

\* The characters the regex engine holds equal to a lower-case ASCII letter
\* of a pattern beside those that lower to it.
casefix(p) ==
    IF p = "i" THEN {"<U+0131>"}
    ELSE IF p = "s" THEN {"<U+017F>"}
    ELSE {}

\* re.compile(pat, re.IGNORECASE).search(x) for a pattern pat of lower-case
\* ASCII letters.
re_search_ignorecase(pat, x) ==
    \E i \in 0..(Len(x) - Len(pat)) :
        \A j \in 1..Len(pat) :
            unicode_tolower(x[i + j]) \in {pat[j]} \cup casefix(pat[j])

\* s.str.contains("closed", case=False, na=False)
contains_closed(x) ==
    x # NA /\ re_search_ignorecase(<<"c", "l", "o", "s", "e", "d">>, x)

\* (s.str.contains("closed", case=False, na=False)).mean()
closure_share(g) ==
    Quot(Poly(Len(SelectSeq(g, LAMBDA r : contains_closed(r.action))), 0),
         Poly(Len(g), 0))

\* ("inspection_number", "count"): the rows that hold an inspection_number.
inspections(g) == Len(SelectSeq(g, LAMBDA r : r.inspection_number # NULL))

ZipGroup(t, k) ==
    [zipcode |-> k[1],
     period |-> k[2],
     mean_hygiene_index |-> mean_hygiene_index(SelectSeq(t, LAMBDA r : KeyOf(r) = k)),
     median_hygiene_index |-> median_hygiene_index(SelectSeq(t, LAMBDA r : KeyOf(r) = k)),
     inspections |-> inspections(SelectSeq(t, LAMBDA r : KeyOf(r) = k)),
     unique_establishments |->
         Cardinality({t[i].camis : i \in {j \in 1..Len(t) : KeyOf(t[j]) = k}}),
     mean_score |-> MeanOf(SelectSeq(t, LAMBDA r : KeyOf(r) = k), "score"),
     mean_critical_violations |->
         MeanOf(SelectSeq(t, LAMBDA r : KeyOf(r) = k), "critical_violations"),
     closure_share |-> closure_share(SelectSeq(t, LAMBDA r : KeyOf(r) = k))]

\* The columns aggregate_by_zip reads.
AggregateCols ==
    {"inspection_date", "zipcode", "hygiene_index", "inspection_number",
     "camis", "score", "critical_violations", "action"}

\* dropna and agg raise KeyError for a column the table does not have.
aggregate_by_zip(t, tcols) ==
    IF ~(AggregateCols \subseteq tcols) THEN Raised("KeyError")
    ELSE LET kept == dropna(t)
             keys == SortedKeys({KeyOf(kept[i]) : i \in 1..Len(kept)})
         IN Returned([i \in 1..Len(keys) |-> ZipGroup(kept, keys[i])],
                     {"zipcode", "period", "mean_hygiene_index",
                      "median_hygiene_index", "inspections",
                      "unique_establishments", "mean_score",
                      "mean_critical_violations", "closure_share"})

(***************************************************************************)
(* The inputs of the history builder.                                      *)
(***************************************************************************)
HistoryCols ==
    {"camis", "inspection_date", "score", "grade", "action",
     "violation_description", "is_critical_description"}

\* Rows that differ in establishment and date.
KeyRows ==
    [camis : Camis, inspection_date : Dates \cup {NULL}, score : {1},
     grade : {GradeA}, action : {NA}, violation_code : {Code04L},
     violation_description : {Rodent}, is_critical_description : {TRUE}]

\* Rows of one establishment that differ in score, grade and action.
FirstRows ==
    [camis : {1}, inspection_date : {1, 3}, score : Scores \cup {NULL},
     grade : {GradeA, NA}, action : {Closed, NA}, violation_code : {Code04L},
     violation_description : {Rodent}, is_critical_description : {TRUE}]

\* Rows of one establishment that differ in their violation fields.
CountRows ==
    [camis : {1}, inspection_date : {1, 3}, score : {1},
     grade : {GradeA}, action : {NA}, violation_code : {Code04L, NA},
     violation_description : {Rodent, NA},
     is_critical_description : BOOLEAN]

\* A row of a table that has no violation_code column holds no value there.
InTable(r) ==
    IF "violation_code" \in cols THEN r
    ELSE [r EXCEPT !.violation_code = NA]

\* No table yet, no exception yet.
Blank ==
    /\ raw = <<>>
    /\ df = <<>>
    /\ hist = <<>>
    /\ est = <<>>
    /\ agg = <<>>
    /\ err = "none"
    /\ files = {}

Init ==
    /\ pc = "input"
    /\ zip_shapefile = "none"
    /\ cols \in {HistoryCols, HistoryCols \cup {"violation_code"}}
    /\ Blank

AddRow(S) ==
    /\ pc = "input"
    /\ Len(df) < MaxRows
    /\ \E r \in S : df' = Append(df, InTable(r))
    /\ UNCHANGED <<pc, zip_shapefile, raw, cols, hist, est, agg, err, files>>

BuildHistory ==
    /\ pc = "input"
    /\ pc' = "built"
    /\ hist' = build_establishment_history(df)
    /\ UNCHANGED <<zip_shapefile, raw, cols, df, est, agg, err, files>>

Next == AddRow(KeyRows) \/ BuildHistory

Spec == Init /\ [][Next]_vars

InitFirst ==
    /\ pc = "input"
    /\ zip_shapefile = "none"
    /\ cols = HistoryCols \cup {"violation_code"}
    /\ Blank

NextFirst == AddRow(FirstRows) \/ BuildHistory

SpecFirst == InitFirst /\ [][NextFirst]_vars

NextCount == AddRow(CountRows) \/ BuildHistory

SpecCount == Init /\ [][NextCount]_vars

(***************************************************************************)
(* compute_hygiene_index on a cohort of visits.                            *)
(***************************************************************************)
Counts == {0, 1, 2}

CohortVisits ==
    [score : Scores \cup {NULL}, critical_violations : Counts,
     violation_count : {1, 2}]

InitHygiene ==
    /\ pc = "cohort"
    /\ zip_shapefile = "none"
    /\ cols = HistoryCols
    /\ Blank

AddVisit ==
    /\ pc = "cohort"
    /\ Len(hist) < MaxRows
    /\ \E v \in CohortVisits : hist' = Append(hist, v)
    /\ UNCHANGED <<pc, zip_shapefile, raw, cols, df, est, agg, err, files>>

ComputeHygiene ==
    /\ pc = "cohort"
    /\ pc' = "indexed"
    /\ est' = compute_hygiene_index(hist)
    /\ UNCHANGED <<zip_shapefile, raw, cols, df, hist, agg, err, files>>

NextHygiene == AddVisit \/ ComputeHygiene

SpecHygiene == InitHygiene /\ [][NextHygiene]_vars

(***************************************************************************)
(* spatially_join_zip on a table of records.                               *)
(***************************************************************************)
Shapefiles == {"none", "unreadable", "nogeom", "ok"}

ZipColSets ==
    {z \cup g : z \in SUBSET {"zipcode", "postal_code"},
                g \in {{}, {"latitude", "longitude"}}}

ZipRows ==
    [zipcode : {ZNA, Z10001}, postal_code : {ZNA, Z7302, ZPlus4},
     coords : {"missing", "outside", "in"}]

\* A row holds nothing in the columns its table does not have.
InZipTable(r) ==
    [zipcode |-> IF "zipcode" \in cols THEN r.zipcode ELSE ZNA,
     postal_code |-> IF "postal_code" \in cols THEN r.postal_code ELSE ZNA,
     coords |-> IF "latitude" \in cols THEN r.coords ELSE "missing"]

InitZip ==
    /\ pc = "input"
    /\ zip_shapefile \in Shapefiles
    /\ cols \in ZipColSets
    /\ Blank

AddZipRow ==
    /\ pc = "input"
    /\ Len(raw) < MaxRows
    /\ \E r \in ZipRows : raw' = Append(raw, InZipTable(r))
    /\ UNCHANGED <<pc, zip_shapefile, cols, df, hist, est, agg, err, files>>

\* df = spatially_join_zip(df, zip_shapefile=...)
ResolveZip ==
    /\ pc = "input"
    /\ LET res == spatially_join_zip(raw, cols, zip_shapefile)
       IN /\ pc' = IF res.raised = "none" THEN "resolved" ELSE "aborted"
          /\ err' = res.raised
          /\ df' = res.table
          /\ cols' = IF res.raised = "none" THEN res.cols ELSE cols
    /\ UNCHANGED <<zip_shapefile, raw, hist, est, agg, files>>

NextZip == AddZipRow \/ ResolveZip

SpecZip == InitZip /\ [][NextZip]_vars

(***************************************************************************)
(* aggregate_by_zip on a table of visits that carries a zipcode, resolved  *)
(* by spatially_join_zip or handed over as it is.                          *)
(***************************************************************************)
VisitCols ==
    {"camis", "inspection_date", "zipcode", "hygiene_index",
     "inspection_number", "score", "critical_violations", "action"}

ZipVisits ==
    [camis : Camis, inspection_date : Dates \cup {NULL},
     zipcode : {ZNA, Z10001, Z7302}]

\* The other columns of a visit row.
ZipVisit(k) ==
    [camis |-> k.camis, inspection_date |-> k.inspection_date,
     zipcode |-> k.zipcode, postal_code |-> ZNA, coords |-> "missing",
     hygiene_index |-> Quot(Poly(50 * (k.camis - 1), 0), Poly(1, 0)),
     inspection_number |-> 1, score |-> k.camis,
     critical_violations |-> k.camis - 1,
     action |-> IF k.camis = 1 THEN Closed ELSE NA]

InitAggregate ==
    /\ pc = "input"
    /\ zip_shapefile = "none"
    /\ cols = VisitCols
    /\ Blank

AddZipVisit ==
    /\ pc = "input"
    /\ Len(raw) < MaxRows
    /\ \E k \in ZipVisits : raw' = Append(raw, ZipVisit(k))
    /\ UNCHANGED <<pc, zip_shapefile, cols, df, hist, est, agg, err, files>>

\* df = pd.read_parquet(args.infile): the table is taken as it is.
ReadTable ==
    /\ pc = "input"
    /\ pc' = "resolved"
    /\ df' = raw
    /\ UNCHANGED <<zip_shapefile, raw, cols, hist, est, agg, err, files>>

\* out = aggregate_by_zip(df)
Aggregate ==
    /\ pc = "resolved"
    /\ LET res == aggregate_by_zip(df, cols)
       IN /\ pc' = IF res.raised = "none" THEN "aggregated" ELSE "aborted"
          /\ err' = res.raised
          /\ agg' = res.table
    /\ UNCHANGED <<zip_shapefile, raw, cols, df, hist, est, files>>

NextAggregate == AddZipVisit \/ ResolveZip \/ ReadTable \/ Aggregate

SpecAggregate == InitAggregate /\ [][NextAggregate]_vars

(***************************************************************************)
(* The two scripts in order: cleaning.py main on a raw table, then         *)
(* run_pipeline.py main on the cleaned table it saved.                     *)
(***************************************************************************)
CsvCols ==
    {"camis", "inspection_date", "score", "grade", "action", "violation_code",
     "violation_description", "zipcode"}

CsvKeys ==
    [camis : Camis, inspection_date : {1, 34, Unparseable},
     zipcode : {ZNA, Z10001}]

\* The other cells of a raw row.
CsvRow(k) ==
    [camis |-> k.camis, inspection_date |-> k.inspection_date,
     zipcode |-> k.zipcode, postal_code |-> ZNA, coords |-> "missing",
     score |-> IF k.camis = 1 THEN 2 ELSE Unparseable,
     grade |-> IF k.camis = 1 THEN GradeLowerA ELSE GradeNa,
     action |-> IF k.camis = 1 THEN Closed ELSE NA,
     violation_code |-> IF k.camis = 1 THEN Code04L ELSE NA,
     violation_description |->
         IF k.camis = 1 THEN RodentEvidence ELSE NA]

\* A row holds nothing in the columns its table does not have.
InCsvTable(r) ==
    [r EXCEPT !.camis = IF "camis" \in cols THEN @ ELSE NULL]

\* The columns of the table build_establishment_history returns, with those
\* compute_hygiene_index adds.
EstCols ==
    {"camis", "inspection_date", "violation_count", "critical_violations",
     "score", "grade", "action", "inspection_number", "prev_inspection_date",
     "days_since_prev", "score_filled", "hygiene_index_raw", "hygiene_index"}

InitPipeline ==
    /\ pc = "csv"
    /\ zip_shapefile \in Shapefiles
    /\ cols \in {CsvCols, CsvCols \ {"camis"}}
    /\ Blank

\* df = load_csv(args.infile)
LoadCsv ==
    /\ pc = "csv"
    /\ Len(raw) < MaxRows
    /\ \E k \in CsvKeys :
           raw' = raw \o load_csv(<<InCsvTable(CsvRow(k))>>)
    /\ UNCHANGED <<pc, zip_shapefile, cols, df, hist, est, agg, err, files>>

\* df = standardize(df)
Standardize ==
    /\ pc = "csv"
    /\ pc' = "standardized"
    /\ df' = standardize(raw, cols)
    /\ cols' = standardize_cols(cols)
    /\ UNCHANGED <<zip_shapefile, raw, hist, est, agg, err, files>>

\* The --out paths of the model, as os.path.dirname splits them.
OutFiles ==
    {[dirname |-> "", basename |-> "cleaned.parquet"],
     [dirname |-> "data/processed", basename |-> "cleaned.parquet"]}

\* save_parquet(df, out_path): os.makedirs(os.path.dirname(out_path),
\* exist_ok=True) raises FileNotFoundError for a path with no directory
\* part; else the table is written.
save_parquet(out) ==
    IF out.dirname = "" THEN "FileNotFoundError" ELSE "none"

\* df = spatially_join_zip(df, zip_shapefile=...); save_parquet(df, ...).
\* An exception of spatially_join_zip ends cleaning.py before the save, an
\* exception of save_parquet ends it with no file written.
JoinZipAndSave ==
    /\ pc = "standardized"
    /\ \E out \in OutFiles :
        LET res == spatially_join_zip(df, cols, zip_shapefile)
        IN IF res.raised # "none"
           THEN /\ pc' = "aborted"
                /\ err' = res.raised
                /\ UNCHANGED <<df, cols, files>>
           ELSE IF save_parquet(out) # "none"
           THEN /\ pc' = "aborted"
                /\ err' = save_parquet(out)
                /\ df' = res.table
                /\ cols' = res.cols
                /\ UNCHANGED files
           ELSE /\ pc' = "cleaned"
                /\ df' = res.table
                /\ cols' = res.cols
                /\ files' = files \cup {out.basename}
                /\ UNCHANGED err
    /\ UNCHANGED <<zip_shapefile, raw, hist, est, agg>>

\* run_pipeline.py main, lines 32-38: read the cleaned table, build the
\* histories, compute the index, write establishment_history.parquet.
HistoryStage ==
    /\ pc = "cleaned"
    /\ pc' = "history"
    /\ hist' = build_establishment_history(df)
    /\ est' = compute_hygiene_index(build_establishment_history(df))
    /\ files' = files \cup {"establishment_history.parquet"}
    /\ UNCHANGED <<zip_shapefile, raw, cols, df, agg, err>>

\* run_pipeline.py main, lines 40-44: aggregate est_hist and write
\* neighborhood_aggregates.parquet.  The call is in no try block.
AggregateStage ==
    /\ pc = "history"
    /\ LET res == aggregate_by_zip(est, EstCols)
       IN IF res.raised = "none"
          THEN /\ pc' = "modeling"
               /\ agg' = res.table
               /\ files' = files \cup {"neighborhood_aggregates.parquet"}
               /\ UNCHANGED err
          ELSE /\ pc' = "aborted"
               /\ err' = res.raised
               /\ UNCHANGED <<agg, files>>
    /\ UNCHANGED <<zip_shapefile, raw, cols, df, hist, est>>

NextPipeline ==
    LoadCsv \/ Standardize \/ JoinZipAndSave \/ HistoryStage \/ AggregateStage

SpecPipeline == InitPipeline /\ [][NextPipeline]_vars

(***************************************************************************)
(* Properties of build_establishment_history                               *)
(***************************************************************************)
VisitsOf(c) == {i \in DOMAIN hist : hist[i].camis = c}

\* The raw rows collapsed into visit v, by their position in df.
RawRowsOf(v) ==
    {k \in DOMAIN df : /\ df[k].camis = v.camis
                       /\ df[k].inspection_date = v.inspection_date}

RawDatesOf(c) ==
    {df[k].inspection_date : k \in {j \in DOMAIN df : df[j].camis = c}}

\* C1: the visits emitted for one establishment have pairwise distinct
\* dates, their inspection numbers are exactly 1..n and increase strictly
\* with the date, and raw rows sharing one (establishment, date) take one
\* ordinal together: n is at most the number of distinct raw dates.
C1_VisitNumbering ==
    pc = "built" =>
        \A c \in Camis :
            LET V == VisitsOf(c)
                n == Cardinality(V)
            IN /\ \A i, j \in V :
                      i # j => hist[i].inspection_date # hist[j].inspection_date
               /\ {hist[i].inspection_number : i \in V} = 1..n
               /\ \A i, j \in V :
                      DateLess(hist[i].inspection_date, hist[j].inspection_date)
                          => hist[i].inspection_number < hist[j].inspection_number
               /\ n <= Cardinality(RawDatesOf(c))

\* Two raw rows of one visit, and a later visit of the same establishment.
C1_Witness ==
    /\ pc = "built"
    /\ \E v \in DOMAIN hist :
           /\ Cardinality(RawRowsOf(hist[v])) >= 2
           /\ \E w \in DOMAIN hist :
                  /\ hist[w].camis = hist[v].camis
                  /\ hist[w].inspection_number = 2

\* C2: days_since_prev is missing for visit 1 of every establishment, and
\* for visit k > 1 it is the day difference to visit k-1 of the same
\* establishment.
C2_DaysSincePrev ==
    pc = "built" =>
        \A i \in DOMAIN hist :
            IF hist[i].inspection_number = 1
            THEN hist[i].days_since_prev = NULL
            ELSE \E j \in VisitsOf(hist[i].camis) :
                     /\ hist[j].inspection_number = hist[i].inspection_number - 1
                     /\ hist[i].prev_inspection_date = hist[j].inspection_date
                     /\ hist[i].days_since_prev =
                            hist[i].inspection_date - hist[j].inspection_date

\* A second visit of one establishment with a visit of another establishment
\* dated between its two visits.
C2_Witness ==
    /\ pc = "built"
    /\ \E i, j, x \in DOMAIN hist :
           /\ hist[i].camis = hist[j].camis
           /\ hist[x].camis # hist[i].camis
           /\ hist[j].inspection_number = 1
           /\ hist[i].inspection_number = 2
           /\ hist[j].inspection_date < hist[x].inspection_date
           /\ hist[x].inspection_date < hist[i].inspection_date
           /\ hist[i].days_since_prev > 0

\* C3: the rows of an establishment whose inspection_date is missing
\* collapse into exactly one visit of that establishment, with a missing
\* date and the counts taken over those rows.
C3_NullDatesCollapse ==
    pc = "built" =>
        \A c \in Camis :
            LET nullRows == {k \in DOMAIN df :
                                df[k].camis = c /\ df[k].inspection_date = NULL}
                nullVisits == {i \in VisitsOf(c) : hist[i].inspection_date = NULL}
            IN nullRows # {} =>
                   /\ Cardinality(nullVisits) = 1
                   /\ \A i \in nullVisits :
                          hist[i].critical_violations =
                              Cardinality({k \in nullRows :
                                              df[k].is_critical_description})

\* The first raw row, in the order of df, among the rows of visit v.
FirstRawRow(v) == CHOOSE k \in RawRowsOf(v) : \A m \in RawRowsOf(v) : k <= m

\* The first raw row of visit v, in the order of df, that holds a value in
\* column col; 0 when no row of the visit holds one.
FirstHolding(v, col, missing) ==
    LET holding == {k \in RawRowsOf(v) : df[k][col] # missing}
    IN IF holding = {} THEN 0
       ELSE CHOOSE k \in holding : \A m \in holding : k <= m

FirstValue(v, col, missing) ==
    IF FirstHolding(v, col, missing) = 0 THEN missing
    ELSE df[FirstHolding(v, col, missing)][col]

\* C4 as stated: score, grade and action of a visit are the values of the
\* first raw row collapsed into it, also when that value is missing.
C4_FirstRowWins ==
    pc = "built" =>
        \A i \in DOMAIN hist :
            /\ hist[i].score = df[FirstRawRow(hist[i])].score
            /\ hist[i].grade = df[FirstRawRow(hist[i])].grade
            /\ hist[i].action = df[FirstRawRow(hist[i])].action

\* What the code gives instead: score, grade and action of a visit are each
\* the first non-missing value of that column, in original row order, among
\* the raw rows collapsed into the visit, and missing when all of them miss
\* it.
C4_FirstNonNull ==
    pc = "built" =>
        \A i \in DOMAIN hist :
            /\ hist[i].score = FirstValue(hist[i], "score", NULL)
            /\ hist[i].grade = FirstValue(hist[i], "grade", NA)
            /\ hist[i].action = FirstValue(hist[i], "action", NA)

\* A visit whose first raw row has neither score nor grade and whose later
\* rows hold both.
C4_Witness ==
    /\ pc = "built"
    /\ \E i \in DOMAIN hist :
           /\ df[FirstRawRow(hist[i])].score = NULL
           /\ df[FirstRawRow(hist[i])].grade = NA
           /\ hist[i].score # NULL
           /\ hist[i].grade # NA

\* C5 as stated: with a violation_code column violation_count is the number
\* of raw rows of the visit; without one it is the number of rows with a
\* violation_description; critical_violations counts the critical rows.
C5_CountsAllRows ==
    pc = "built" =>
        \A i \in DOMAIN hist :
            LET G == RawRowsOf(hist[i])
            IN /\ hist[i].violation_count =
                      IF "violation_code" \in cols THEN Cardinality(G)
                      ELSE Cardinality({k \in G : df[k].violation_description # NA})
               /\ hist[i].critical_violations =
                      Cardinality({k \in G : df[k].is_critical_description})

\* C5 as amended: with a violation_code column violation_count is the
\* number of raw rows of the visit whose violation_code is not missing;
\* without one it is the number of rows whose violation_description is not
\* missing; critical_violations counts the rows with is_critical true.
C5_CountsNonNull ==
    pc = "built" =>
        \A i \in DOMAIN hist :
            LET G == RawRowsOf(hist[i])
            IN /\ hist[i].violation_count =
                      IF "violation_code" \in cols
                      THEN Cardinality({k \in G : df[k].violation_code # NA})
                      ELSE Cardinality({k \in G : df[k].violation_description # NA})
               /\ hist[i].critical_violations =
                      Cardinality({k \in G : df[k].is_critical_description})

\* A visit of a table with a violation_code column that collapses a row
\* with a code and a row without one.
C5_Witness ==
    /\ pc = "built"
    /\ "violation_code" \in cols
    /\ \E i \in DOMAIN hist :
           /\ \E k \in RawRowsOf(hist[i]) : df[k].violation_code = NA
           /\ \E k \in RawRowsOf(hist[i]) : df[k].violation_code # NA
           /\ hist[i].violation_count = 1
           /\ hist[i].critical_violations = 2

(***************************************************************************)
(* Properties of compute_hygiene_index                                     *)
(***************************************************************************)
InRange(h) ==
    /\ ~h.nan
    /\ PSign(h.num) >= 0
    /\ PSign(PSub(PScale(IndexScale, h.den), h.num)) >= 0

IsZero(h) == ~h.nan /\ PSign(h.num) = 0

Uniform(t) ==
    \A i, j \in DOMAIN t :
        /\ t[i].score = t[j].score
        /\ t[i].critical_violations = t[j].critical_violations
        /\ t[i].violation_count = t[j].violation_count

\* C6: for a non-empty cohort every hygiene_index lies in [0,100], and it
\* is 0 for every visit when all visits agree in score, critical_violations
\* and violation_count (so for every cohort of one visit).
C6_IndexRangeAndZero ==
    (pc = "indexed" /\ hist # <<>>) =>
        \A i \in DOMAIN est :
            /\ InRange(est[i].hygiene_index)
            /\ Uniform(hist) => IsZero(est[i].hygiene_index)

\* The same for the cohorts that hold at least one score: there the index
\* is in range, and 0 for uniform cohorts.
HygieneRangeWhenScored ==
    (pc = "indexed" /\ \E i \in DOMAIN hist : hist[i].score # NULL) =>
        \A i \in DOMAIN est :
            /\ InRange(est[i].hygiene_index)
            /\ Uniform(hist) => IsZero(est[i].hygiene_index)

\* The cohort with every score replaced by one value: its score component
\* is 0 for every visit.
WithoutScores(t) == [i \in DOMAIN t |-> [t[i] EXCEPT !.score = 0]]

\* C7: when every score of the cohort is missing, the score component
\* contributes 0, and every hygiene_index is a number in [0,100] fixed by
\* the critical_violations and violation_count components alone.
C7_AllScoresNull ==
    (pc = "indexed" /\ hist # <<>>
        /\ \A i \in DOMAIN hist : hist[i].score = NULL) =>
        \A i \in DOMAIN est :
            /\ InRange(est[i].hygiene_index)
            /\ est[i].hygiene_index =
                   compute_hygiene_index(WithoutScores(hist))[i].hygiene_index

(***************************************************************************)
(* Properties of aggregate_by_zip and spatially_join_zip                   *)
(***************************************************************************)
\* The rows of the table that count for the aggregator: a zipcode that was
\* held before zip resolution and is held after it, and a date.
Countable ==
    {i \in DOMAIN df : /\ raw[i].zipcode # ZNA
                       /\ df[i].zipcode # ZNA
                       /\ df[i].inspection_date # NULL}

\* C8: aggregate_by_zip emits exactly one row per (zipcode, period) that has
\* a visit with a zipcode and a date, and no other row; inspections is the
\* number of visits of that zipcode and period; a visit without zipcode
\* (also one whose zipcode was missing before zip resolution) or without
\* date is in no row, under no sentinel key.
C8_AggregateRows ==
    pc = "aggregated" =>
        /\ {<<agg[a].zipcode, agg[a].period>> : a \in DOMAIN agg}
               = {KeyOf(df[i]) : i \in Countable}
        /\ \A a, b \in DOMAIN agg :
               (agg[a].zipcode = agg[b].zipcode /\ agg[a].period = agg[b].period)
                   => a = b
        /\ \A a \in DOMAIN agg :
               agg[a].inspections =
                   Cardinality({i \in Countable :
                                   KeyOf(df[i]) = <<agg[a].zipcode, agg[a].period>>})

\* The same for the table as the aggregator receives it: the rows that
\* hold a zipcode and a date there.
AggregateRowsOfTable ==
    pc = "aggregated" =>
        LET held == {i \in DOMAIN df : df[i].zipcode # ZNA
                                       /\ df[i].inspection_date # NULL}
        IN /\ {<<agg[a].zipcode, agg[a].period>> : a \in DOMAIN agg}
                  = {KeyOf(df[i]) : i \in held}
           /\ \A a \in DOMAIN agg :
                  agg[a].inspections =
                      Cardinality({i \in held :
                          KeyOf(df[i]) = <<agg[a].zipcode, agg[a].period>>})

\* A 5-character zero-padded zip of a held value.
FiveChars(x) == str_zfill(str_slice(x))

\* The zipcode the stated precedence gives row i: the explicit zip, else
\* the postal code, else the spatial lookup, else nothing.
PrecedenceZip(i) ==
    IF "zipcode" \in cols /\ raw[i].zipcode # ZNA
    THEN FiveChars(raw[i].zipcode)
    ELSE IF raw[i].postal_code # ZNA THEN FiveChars(raw[i].postal_code)
    ELSE IF zip_shapefile = "ok" /\ raw[i].coords = "in" THEN Z10002
    ELSE ZNA

\* C9: for every record, the resolved zipcode is the first available of
\* explicit zip, postal code, spatial lookup, else missing; a failed spatial
\* lookup keeps the zip already present, and a source without geometry does
\* not make the call raise.
C9_ZipPrecedence ==
    \A i \in DOMAIN raw :
        /\ ~(pc = "aborted" /\ err = "RuntimeError")
        /\ pc = "resolved" =>
               IF "zipcode" \in cols THEN df[i].zipcode = PrecedenceZip(i)
               ELSE PrecedenceZip(i) = ZNA

(***************************************************************************)
(* Properties of the run                                                   *)
(***************************************************************************)
\* The exceptions of the collaborators: the ZIP shapefile that cannot be
\* read (read_file) or has no geometry (RuntimeError).
CollaboratorErrors == {"read_file", "RuntimeError"}

\* C10: the failure of a collaborator ends in a fallback or a reported skip
\* of its stage only: it never ends the run.
C10_CollaboratorFailureNotFatal ==
    ~(pc = "aborted" /\ err \in CollaboratorErrors)

\* The cleaned table is a zip-resolved input: cleaning.py saved it, it has
\* rows, and each row has a dated inspection and a zipcode of five digits.
ZipResolvedInput ==
    /\ "cleaned.parquet" \in files
    /\ df # <<>>
    /\ \A j \in DOMAIN df :
           df[j].inspection_date # NULL /\ df[j].zipcode = Z10001

\* Visit row i of est_hist holds a zipcode of the records it was made of.
CarriesZipcode(i) ==
    /\ "zipcode" \in DOMAIN est[i]
    /\ \E j \in DOMAIN df :
           /\ df[j].camis = est[i].camis
           /\ df[j].inspection_date = est[i].inspection_date
           /\ df[j].zipcode = est[i].zipcode

\* C11: on a zip-resolved input, every visit row handed to the aggregator
\* carries the zipcode of the records it was collapsed from, and the
\* aggregation stage completes with the (zipcode, period) rows of those
\* visits: it does not fail on a missing zipcode column.
C11_ZipcodeCarriedToAggregator ==
    ZipResolvedInput =>
        /\ "establishment_history.parquet" \in files =>
               \A i \in DOMAIN est : CarriesZipcode(i)
        /\ ~(pc = "aborted" /\ err = "KeyError")
        /\ pc = "modeling" =>
               /\ "zipcode" \in EstCols
               /\ {<<agg[a].zipcode, agg[a].period>> : a \in DOMAIN agg}
                      = {<<est[i].zipcode, period(est[i].inspection_date)>> :
                             i \in DOMAIN est}

====
